---- MODULE Spec2Model ----
(***************************************************************************)
(* OpenHealth SD (src/app.py): a Streamlit script that is re-executed from *)
(* top to bottom on every interaction.  Tab 1 loads the resource CSV and   *)
(* runs the category / text / distance / radius pipeline, Tab 2 is the     *)
(* Salud QR registry over SQLite, Tab 4 prints the weather notice.  The    *)
(* tabs share no program state, so each is modelled by its own actions.    *)
(*                                                                         *)
(* Text cells are sequences of one-character strings so that lower(),      *)
(* strip() and the regular-expression search of str.contains can be        *)
(* computed.  A missing cell (NaN) is the empty cell: read_csv turns an    *)
(* empty field into NaN, so a loaded frame holds no empty string.          *)
(* Coordinates are written in microdegrees; distances are held in metres   *)
(* (the kilometre value times 1000, rounded up), so that the comparison    *)
(* with the integer radius slider is exact.                                *)
(***************************************************************************)
EXTENDS Integers, Sequences, FiniteSets, TLC

VARIABLES
    source,      \* data/resources_sample.csv as read by the last run
    build,       \* what the installed numpy does where its documentation leaves it open
    loaded,      \* the value load_resources() returned in the last run
    df_map,      \* the frame object df_map names, as it is at the end of Tab 1
    work_df,     \* work_df at the end of Tab 1 (the rows given to the map and the table)
    status,      \* "ok", or where the last run of Tab 1 raised
    sel_tipos,   \* st.multiselect "Filtrar por tipo"
    max_km,      \* st.slider "Radio km"
    user_lat,    \* st.number_input "Tu lat"
    user_lon,    \* st.number_input "Tu lon"
    search_txt,  \* st.text_input "Buscar por nombre/direccion"
    incoming_id, \* the ?id= query parameter of the session's URL
    persons,     \* table persons of openhealth.db: id -> profile
    visits,      \* table visits of openhealth.db, in rowid order
    qr_mode,     \* st.radio "Accion"
    lookup_text, \* st.text_input "ID paciente"
    qr_view,     \* what Tab 2 drew in the last run
    qr_trigger,  \* the widget whose use started the last run
    visit_form,  \* the values of form f_visit when it was last submitted
    weather,     \* temperature (tenths of a degree C) and description outside
    news         \* what Tab 4 wrote in the last run

mapVars == <<source, build, loaded, df_map, work_df, status,
             sel_tipos, max_km, user_lat, user_lon, search_txt>>

qrVars == <<incoming_id, persons, visits, qr_mode, lookup_text, qr_view,
            qr_trigger, visit_form>>

newsVars == <<weather, news>>

vars == <<mapVars, qrVars, newsVars>>

----------------------------------------------------------------------------
(* Bounds and input sets                                                   *)

\* Most data rows a source file holds.
MaxRows == 2

\* The missing cell of a text column and of the type column.
NaN == <<>>
NoType == ""

DEFAULT_LAT == 32715700
DEFAULT_LON == -117161100

\* Text of a CSV coordinate cell -> the float pd.to_numeric gives for it.
\* A cell outside the table ("abc", the empty cell) does not parse.
ParseFloat ==
    [c \in {"32.7157", "32.7607", "-117.1611"} |->
        CASE c = "32.7157" -> 32715700
          [] c = "32.7607" -> 32760700
          [] c = "-117.1611" -> -117161100]

RawRow(name, type, address, lat, lon) ==
    [name |-> name, type |-> type, address |-> address, lat |-> lat, lon |-> lon]

\* The rows a source file is made of.  hours, phone and notes are carried
\* through the pipeline untouched and are left out of the rows.
SourceRows ==
    { RawRow(<<"a", "B">>, "Shelter", <<"a">>, "32.7157", "-117.1611"),
      RawRow(NaN,          "Clinic",  <<"b">>, "32.7157", "-117.1611"),
      RawRow(<<"b">>,      "",        NaN,     "32.7607", "-117.1611"),
      RawRow(<<"a">>,      "Food",    <<"a">>, "abc",     "-117.1611"),
      RawRow(<<"a">>,      "Food",    <<"a">>, "32.7607", "") }

UserLats == {32715700, 32760700}
UserLons == {-117161100, -117214600}
Radii == {1, 8}
SearchTexts == { <<>>, <<" ">>, <<"B">>, <<".">>, <<"(">> }

RECURSIVE Perms(_)
Perms(S) ==
    IF S = {} THEN { <<>> }
    ELSE UNION { { <<x>> \o p : p \in Perms(S \ {x}) } : x \in S }

\* ties: the order in which the installed argsort (quicksort, not stable)
\*       leaves equal keys, as a priority over positions; the identity is
\*       the order a stable sort would give.
Builds == [ties : Perms(1..MaxRows)]

----------------------------------------------------------------------------
(* Frames                                                                  *)

CSV_COLUMNS == <<"name", "type", "address", "lat", "lon", "hours", "phone", "notes">>

\* A DataFrame: its column labels, its rows and the dtype of the two columns
\* the .str accessor is used on.  A row holds its index label (idx) and a
\* cell per modelled column; the cells of dist_km and color are 0 and <<>>
\* while the frame has no such column.
Frame(cols, rows, dt) == [columns |-> cols, rows |-> rows, dtypes |-> dt]

ObjectDtypes == [name |-> "object", address |-> "object"]

EmptyFrame == Frame(CSV_COLUMNS, <<>>, ObjectDtypes)

\* The dtype read_csv infers: a column of empty cells only is float64.
ColumnDtype(rows, col) ==
    IF rows # <<>> /\ \A i \in DOMAIN rows : rows[i][col] = NaN
    THEN "float64" ELSE "object"

\* pd.read_csv on a well-formed file: index 0..n-1, dtypes inferred per column.
read_csv(rows) ==
    Frame(CSV_COLUMNS,
          [i \in DOMAIN rows |->
              [idx |-> i - 1, name |-> rows[i].name, type |-> rows[i].type,
               address |-> rows[i].address, lat |-> rows[i].lat, lon |-> rows[i].lon,
               dist_km |-> 0, color |-> <<>>]],
          [name |-> ColumnDtype(rows, "name"), address |-> ColumnDtype(rows, "address")])

\* pd.to_numeric(cell, errors="coerce")
to_numeric(cell) ==
    IF cell \in DOMAIN ParseFloat
    THEN [nan |-> FALSE, v |-> ParseFloat[cell]]
    ELSE [nan |-> TRUE, v |-> 0]

RECURSIVE SelectRows(_, _)
\* rows[keep]: the rows at the positions in keep, in their order.
SelectRows(rows, keep) ==
    IF rows = <<>> THEN <<>>
    ELSE LET n == Len(rows)
             front == SelectRows(SubSeq(rows, 1, n - 1), keep)
         IN IF n \in keep THEN Append(front, rows[n]) ELSE front

\* df.dropna(subset=["lat", "lon"]) after both columns were coerced.
dropna_any_column(rows) ==
    SelectRows(rows, { i \in DOMAIN rows :
        /\ ~rows[i].lat.nan /\ ~rows[i].lon.nan
        /\ rows[i].name # NaN /\ rows[i].address # NaN /\ rows[i].type # NoType })

dropna_lat_lon(rows) ==
    SelectRows(rows, { i \in DOMAIN rows : ~rows[i].lat.nan /\ ~rows[i].lon.nan })

\* load_resources(): what it returns, or that it raised.
load_resources(src) ==
    IF src.state = "absent" THEN [raised |-> FALSE, df |-> EmptyFrame]
    ELSE IF src.state = "empty" THEN [raised |-> FALSE, df |-> EmptyFrame]
    ELSE IF src.state = "malformed" THEN [raised |-> TRUE, df |-> EmptyFrame]
    ELSE LET df == read_csv(src.rows)
             coerced == [i \in DOMAIN df.rows |->
                            [df.rows[i] EXCEPT !.lat = to_numeric(df.rows[i].lat),
                                               !.lon = to_numeric(df.rows[i].lon)]]
             kept == dropna_lat_lon(coerced)
             rows == [i \in DOMAIN kept |->
                         [kept[i] EXCEPT !.lat = kept[i].lat.v, !.lon = kept[i].lon.v]]
         IN [raised |-> FALSE, df |-> [df EXCEPT !.rows = rows]]

----------------------------------------------------------------------------
(* Strings                                                                 *)

LowerChar(c) ==
    CASE c = "A" -> "a"
      [] c = "B" -> "b"
      [] c = "D" -> "d"
      [] c = "S" -> "s"
      [] OTHER -> c

\* str.lower()
lower(s) == [i \in DOMAIN s |-> LowerChar(s[i])]

RECURSIVE lstrip(_)
lstrip(s) == IF s # <<>> /\ Head(s) = " " THEN lstrip(Tail(s)) ELSE s

RECURSIVE rstrip(_)
rstrip(s) ==
    IF s # <<>> /\ s[Len(s)] = " " THEN rstrip(SubSeq(s, 1, Len(s) - 1)) ELSE s

\* str.strip()
strip(s) == rstrip(lstrip(s))

\* s contains sub as a literal substring.
IsSubstring(sub, s) ==
    \E i \in 0..(Len(s) - Len(sub)) : \A j \in DOMAIN sub : s[i + j] = sub[j]

\* re.compile(pat) raises re.error: over this alphabet, exactly when pat
\* opens a group, which nothing can close.
re_error(pat) == \E j \in DOMAIN pat : pat[j] = "("

\* re.search(pat, s) finds a match: "." matches any character, every other
\* character of the alphabet matches itself.
re_search(pat, s) ==
    \E i \in 0..(Len(s) - Len(pat)) :
        \A j \in DOMAIN pat : pat[j] = "." \/ s[i + j] = pat[j]

\* One cell of Series.str.lower().str.contains(low): NaN stays NaN.
str_contains(cell, low) ==
    IF cell = NaN THEN "NaN"
    ELSE IF re_search(low, lower(cell)) THEN "True" ELSE "False"

\* One cell of `left | right` followed by boolean indexing (pandas 2, object
\* masks): a NaN on the left makes the cell NaN, which is then read as
\* False; a NaN on the right is filled with False before the operation.
mask_or(left, right) ==
    IF left = "NaN" THEN FALSE
    ELSE left = "True" \/ right = "True"

----------------------------------------------------------------------------
(* Distance                                                                *)

\* haversine_km(lat1, lon1, lat2, lon2) in metres, rounded up, for the
\* coordinates of the model; each entry is the value the function returns.
HaversineTable ==
    [q \in (UserLats \X UserLons \X {32715700, 32760700} \X {-117161100}) |->
        CASE q = <<32715700, -117161100, 32715700, -117161100>> -> 0
          [] q = <<32715700, -117161100, 32760700, -117161100>> -> 5004
          [] q = <<32715700, -117214600, 32715700, -117161100>> -> 5006
          [] q = <<32715700, -117214600, 32760700, -117161100>> -> 7077
          [] q = <<32760700, -117161100, 32715700, -117161100>> -> 5004
          [] q = <<32760700, -117161100, 32760700, -117161100>> -> 0
          [] q = <<32760700, -117214600, 32715700, -117161100>> -> 7077
          [] q = <<32760700, -117214600, 32760700, -117161100>> -> 5003]

haversine_km(lat1, lon1, lat2, lon2) == HaversineTable[<<lat1, lon1, lat2, lon2>>]

----------------------------------------------------------------------------
(* Tab 1: Mapa                                                             *)

\* The one-record frame Tab 1 puts in place of an empty catalog.
DemoFrame ==
    Frame(CSV_COLUMNS,
          << [idx |-> 0,
              name |-> <<"D", "e", "m", "o", " ", "S", "h", "e", "l", "t", "e", "r">>,
              type |-> "Shelter",
              address |-> <<"1", "2", "3", " ", "D", "e", "m", "o", " ", "S", "t">>,
              lat |-> DEFAULT_LAT, lon |-> DEFAULT_LON,
              dist_km |-> 0, color |-> <<>>] >>,
          ObjectDtypes)

\* df.empty
df_empty(df) == df.rows = <<>>

\* load_resources() followed by the demo substitution: the frame df_map names.
MapCatalog_no_demo(ld) == ld.df

MapCatalog(ld) == IF df_empty(ld.df) THEN DemoFrame ELSE ld.df

\* sorted(df_map["type"].dropna().unique().tolist()), as a set.
Tipos(df) == { df.rows[i].type : i \in DOMAIN df.rows } \ {NoType}

\* The two names of Tab 1 and whether they name the same object.
Names(df, work, shared) == [df_map |-> df, work_df |-> work, shared |-> shared]

\* work_df = df_map.copy(): a new object.
frame_copy_alias(df) == Names(df, df, TRUE)

frame_copy(df) == Names(df, df, FALSE)

\* work_df = work_df[mask]: boolean indexing gives a new object.
boolean_index(e, keep) ==
    Names(e.df_map, [e.work_df EXCEPT !.rows = SelectRows(e.work_df.rows, keep)], FALSE)

\* work_df[col] = values: writes into the object work_df names.
set_column(e, col, values) ==
    LET w == [e.work_df EXCEPT
                 !.columns = IF \E k \in DOMAIN @ : @[k] = col THEN @ ELSE Append(@, col),
                 !.rows = [i \in DOMAIN @ |-> [@[i] EXCEPT ![col] = values[i]]]]
    IN Names(IF e.shared THEN w ELSE e.df_map, w, e.shared)

\* Position of x in the permutation p.
Rank(p, x) == CHOOSE k \in DOMAIN p : p[k] = x

\* argsort of the keys: ascending, equal keys in the order the build leaves them.
argsort(keys, ties) ==
    CHOOSE p \in Perms(DOMAIN keys) :
        \A i \in 1..(Len(p) - 1) :
            \/ keys[p[i]] < keys[p[i + 1]]
            \/ /\ keys[p[i]] = keys[p[i + 1]]
               /\ Rank(ties, p[i]) < Rank(ties, p[i + 1])

\* work_df.sort_values("dist_km"): a new object.
sort_values(e, ties) ==
    LET rows == e.work_df.rows
        p == argsort([i \in DOMAIN rows |-> rows[i].dist_km], ties)
    IN Names(e.df_map, [e.work_df EXCEPT !.rows = [i \in DOMAIN rows |-> rows[p[i]]]], FALSE)

FALLBACK_COLOR == <<200, 0, 200>>

\* color_map.get(str(t), [200, 0, 200])
color_map_get(t) ==
    CASE t = "Shelter" -> <<0, 92, 230>>
      [] t = "Food" -> <<0, 160, 60>>
      [] t = "Medical" -> <<200, 0, 0>>
      [] t = "Hygiene" -> <<200, 160, 0>>
      [] t = "Community" -> <<120, 0, 120>>
      [] OTHER -> FALLBACK_COLOR

\* The row passes `dist_km <= max_km`.
within_radius(d, km) == d <= km * 1000

\* The row passes isin(sel_tipos).
isin(t, sel) == t \in sel

\* Lines 426-428: the category filter, skipped for an empty selection.
CategoryFilter(e, sel) ==
    IF sel # {}
    THEN boolean_index(e, { i \in DOMAIN e.work_df.rows :
                                isin(e.work_df.rows[i].type, sel) })
    ELSE e

\* Lines 433-435 raise: .str on a float64 column (AttributeError) or a text
\* that is no regular expression (re.error).
TextFilterRaises(e, txt) ==
    /\ strip(txt) # <<>>
    /\ \/ e.work_df.dtypes.name = "float64"
       \/ re_error(lower(strip(txt)))
       \/ e.work_df.dtypes.address = "float64"

\* Lines 430-436: the text filter, skipped for a blank text.
TextFilter(e, txt) ==
    IF strip(txt) # <<>>
    THEN boolean_index(e, { i \in DOMAIN e.work_df.rows :
             mask_or(str_contains(e.work_df.rows[i].name, lower(strip(txt))),
                     str_contains(e.work_df.rows[i].address, lower(strip(txt)))) })
    ELSE e

\* Lines 439-441: the dist_km column.
DistanceColumn(e, lat, lon) ==
    set_column(e, "dist_km",
        [i \in DOMAIN e.work_df.rows |->
            haversine_km(lat, lon, e.work_df.rows[i].lat, e.work_df.rows[i].lon)])

\* Line 443: the radius threshold.
RadiusFilter(e, km) ==
    boolean_index(e, { i \in DOMAIN e.work_df.rows :
                           within_radius(e.work_df.rows[i].dist_km, km) })

\* Lines 453-455: the color column.
ColorColumn(e) ==
    set_column(e, "color",
        [i \in DOMAIN e.work_df.rows |-> color_map_get(e.work_df.rows[i].type)])

Outcome(st, ld, df, work) ==
    [status |-> st, loaded |-> ld, df_map |-> df, work_df |-> work]

\* Lines 369-455: one execution of Tab 1 on the file src with the widget
\* values sel, km, lat, lon, txt.  Each stage is bound to the value of the
\* stage before it (ld, e0 .. e6).
Tab1(src, b, sel, km, lat, lon, txt) ==
    CHOOSE out \in
        { IF ld.raised
          THEN Outcome("load_error", EmptyFrame, EmptyFrame, EmptyFrame)
          ELSE CHOOSE o1 \in
              { IF TextFilterRaises(e1, txt)
                THEN Outcome("filter_error", ld.df, e1.df_map, e1.work_df)
                ELSE CHOOSE o2 \in
                    { Outcome("ok", ld.df, e6.df_map, e6.work_df) :
                        e6 \in { ColorColumn(e5) :
                        e5 \in { RadiusFilter(e4, km) :
                        e4 \in { sort_values(e3, b.ties) :
                        e3 \in { DistanceColumn(e2, lat, lon) :
                        e2 \in { TextFilter(e1, txt) } } } } } } : TRUE
                : e1 \in { CategoryFilter(e0, sel) :
                  e0 \in { frame_copy(MapCatalog(ld)) } } } : TRUE
          : ld \in { load_resources(src) } } : TRUE

----------------------------------------------------------------------------
(* Runs of the script                                                      *)

File(state, rows) == [state |-> state, rows |-> rows]

DEFAULT_KM == 8

\* The options of the multiselect in a run that reads src (none if the load raises).
TiposOf(src) ==
    IF load_resources(src).raised THEN {} ELSE Tipos(MapCatalog(load_resources(src)))

\* One run of the script: Tab 1 reads src and the widgets hold the given
\* values.  A run that raises in load_resources draws no widget of Tab 1, so
\* Streamlit drops their values and the next run starts from the defaults.
Run(src, sel, km, lat, lon, txt) ==
    \E out \in { Tab1(src, build, sel, km, lat, lon, txt) } :
       /\ source' = src
       /\ build' = build
       /\ UNCHANGED <<qrVars, newsVars>>
       /\ loaded' = out.loaded
       /\ df_map' = out.df_map
       /\ work_df' = out.work_df
       /\ status' = out.status
       /\ IF out.status = "load_error"
          THEN /\ sel_tipos' = {}
               /\ max_km' = DEFAULT_KM
               /\ user_lat' = DEFAULT_LAT
               /\ user_lon' = DEFAULT_LON
               /\ search_txt' = <<>>
          ELSE /\ sel_tipos' = sel
               /\ max_km' = km
               /\ user_lat' = lat
               /\ user_lon' = lon
               /\ search_txt' = txt

\* A run after the file changed to src: a multiselect whose options changed
\* is a new widget and takes its default (default=tipos).
RunOnFile(src) ==
    Run(src,
        IF status = "load_error" \/ TiposOf(src) # TiposOf(source)
        THEN TiposOf(src) ELSE sel_tipos,
        max_km, user_lat, user_lon, search_txt)

\* The first run of a session: no file yet, every widget at its default.
MapStart(b) ==
    /\ build = b
    /\ source = File("absent", <<>>)
    /\ \E out \in { Tab1(File("absent", <<>>), b, Tipos(DemoFrame), DEFAULT_KM,
                          DEFAULT_LAT, DEFAULT_LON, <<>>) } :
          /\ loaded = out.loaded
          /\ df_map = out.df_map
          /\ work_df = out.work_df
          /\ status = out.status
    /\ sel_tipos = Tipos(DemoFrame)
    /\ max_km = DEFAULT_KM
    /\ user_lat = DEFAULT_LAT
    /\ user_lon = DEFAULT_LON
    /\ search_txt = <<>>

\* The file is removed before the next run.
RemoveSource == source.state # "absent" /\ RunOnFile(File("absent", <<>>))

\* The file is emptied (zero bytes): read_csv raises EmptyDataError.
TruncateSource == source.state # "empty" /\ RunOnFile(File("empty", <<>>))

\* The file is made unreadable as CSV: read_csv raises ParserError or
\* UnicodeDecodeError, or the lat column is missing (KeyError at line 68).
CorruptSource == source.state # "malformed" /\ RunOnFile(File("malformed", <<>>))

\* The file is rewritten with its header line only.
WriteHeader ==
    /\ ~(source.state = "ok" /\ source.rows = <<>>)
    /\ RunOnFile(File("ok", <<>>))

\* A row is appended to a well-formed file.
AppendRow ==
    /\ source.state = "ok"
    /\ Len(source.rows) < MaxRows
    /\ \E r \in SourceRows : RunOnFile(File("ok", Append(source.rows, r)))

\* The user changes one widget of Tab 1, which reruns the script.
ChangeTipos ==
    /\ status # "load_error"
    /\ \E sel \in SUBSET TiposOf(source) :
          /\ sel # sel_tipos
          /\ Run(source, sel, max_km, user_lat, user_lon, search_txt)

ChangeRadius ==
    /\ status # "load_error"
    /\ \E km \in Radii \ {max_km} :
          Run(source, sel_tipos, km, user_lat, user_lon, search_txt)

ChangeLat ==
    /\ status # "load_error"
    /\ \E lat \in UserLats \ {user_lat} :
          Run(source, sel_tipos, max_km, lat, user_lon, search_txt)

ChangeLon ==
    /\ status # "load_error"
    /\ \E lon \in UserLons \ {user_lon} :
          Run(source, sel_tipos, max_km, user_lat, lon, search_txt)

ChangeSearch ==
    /\ status # "load_error"
    /\ \E txt \in SearchTexts \ {search_txt} :
          Run(source, sel_tipos, max_km, user_lat, user_lon, txt)

MapNext ==
    \/ RemoveSource
    \/ TruncateSource
    \/ CorruptSource
    \/ WriteHeader
    \/ AppendRow
    \/ ChangeTipos
    \/ ChangeRadius
    \/ ChangeLat
    \/ ChangeLon
    \/ ChangeSearch

----------------------------------------------------------------------------
(* The map query (Tab 1)                                                   *)

Range(s) == { s[i] : i \in DOMAIN s }

\* A returned row without its derived cells: the catalog record it came from.
CatalogRecord(r) == [r EXCEPT !.dist_km = 0, !.color = <<>>]

\* The frame the map query of the last run was run over.
QueriedCatalog == MapCatalog([df |-> loaded])

\* The records the last run returned.
Returned == { CatalogRecord(work_df.rows[i]) : i \in DOMAIN work_df.rows }

Distance(r) == haversine_km(user_lat, user_lon, r.lat, r.lon)

\* The category filter of the specification: an empty selection allows all.
PassesCategory(r) == sel_tipos = {} \/ r.type \in sel_tipos

\* The text filter of the specification: the lower-cased text is a literal
\* substring of the lower-cased name or address; an empty text allows all.
PassesText(r) ==
    \/ search_txt = <<>>
    \/ IsSubstring(lower(search_txt), lower(r.name))
    \/ IsSubstring(lower(search_txt), lower(r.address))

\* C1: the map query returns exactly the records of the catalog that pass
\* the category filter and the text filter and lie within radius_km of the
\* origin.
C1_ExactlyTheMatchesWithinRadius ==
    status # "load_error" =>
        /\ status = "ok"
        /\ Returned = { r \in Range(QueriedCatalog.rows) :
                          /\ PassesCategory(r)
                          /\ PassesText(r)
                          /\ Distance(r) <= max_km * 1000 }

\* C2: the returned sequence is ascending in dist_km, and returned records
\* of equal dist_km are in their load order.
C2_SortedAndStable ==
    status = "ok" =>
        \A i, j \in DOMAIN work_df.rows :
            i < j =>
                \/ work_df.rows[i].dist_km < work_df.rows[j].dist_km
                \/ /\ work_df.rows[i].dist_km = work_df.rows[j].dist_km
                   /\ work_df.rows[i].idx < work_df.rows[j].idx

\* C3: selecting every category present in the catalog returns what the
\* empty ("allow all") selection returns, text, origin and radius being equal.
C3_FullSelectionIsAllowAll ==
    (status = "ok" /\ sel_tipos = Tipos(QueriedCatalog)) =>
        work_df.rows =
            Tab1(source, build, {}, max_km, user_lat, user_lon, search_txt).work_df.rows

\* C4: a non-empty search text keeps a record if and only if the lower-cased
\* text is a literal substring of its lower-cased name or address, for every
\* text and every record, and the filter never raises; an empty text removes
\* no record.
C4_TextFilterIsLiteralSubstring ==
    status # "load_error" =>
        /\ status = "ok"
        /\ \A r \in Range(QueriedCatalog.rows) :
              (PassesCategory(r) /\ Distance(r) <= max_km * 1000) =>
                  (r \in Returned <=> PassesText(r))

\* C5: load_resources never raises, whatever the source is.
C5_LoadNeverRaises == status # "load_error"

\* The CSV cell coerces to a number.
Coerces(cell) == cell \in DOMAIN ParseFloat

\* C6: the loaded catalog holds exactly the source rows whose latitude and
\* longitude both coerce to numbers, each once per occurrence and in source
\* order, with their cells and numeric coordinates.
C6_LoadKeepsExactlyNumericRows ==
    (status # "load_error" /\ source.state = "ok") =>
        /\ \A k \in DOMAIN loaded.rows :
              LET r == loaded.rows[k]
                  i == r.idx + 1
              IN /\ i \in DOMAIN source.rows
                 /\ Coerces(source.rows[i].lat) /\ Coerces(source.rows[i].lon)
                 /\ r.lat = ParseFloat[source.rows[i].lat]
                 /\ r.lon = ParseFloat[source.rows[i].lon]
                 /\ r.name = source.rows[i].name
                 /\ r.type = source.rows[i].type
                 /\ r.address = source.rows[i].address
        /\ \A i \in DOMAIN source.rows :
              (Coerces(source.rows[i].lat) /\ Coerces(source.rows[i].lon)) =>
                  \E k \in DOMAIN loaded.rows : loaded.rows[k].idx = i - 1
        /\ \A k, m \in DOMAIN loaded.rows :
              k < m => loaded.rows[k].idx < loaded.rows[m].idx

\* C6 witness: a two-row source of which the load kept one row and dropped one.
C6_Witness ==
    /\ status = "ok"
    /\ source.state = "ok"
    /\ Len(source.rows) = 2
    /\ Len(loaded.rows) = 1

\* The text filter as Tab 1 applies it to a record.
KeptByTextFilter(r) ==
    \/ strip(search_txt) = <<>>
    \/ mask_or(str_contains(r.name, lower(strip(search_txt))),
               str_contains(r.address, lower(strip(search_txt))))

\* The record passes every filter of the last query.
Matches(r) ==
    /\ PassesCategory(r)
    /\ KeptByTextFilter(r)
    /\ Distance(r) <= max_km * 1000

DemoRecord == DemoFrame.rows[1]

C10_QueryLeavesCatalogUnchanged ==
    /\ [](status # "load_error" => df_map = QueriedCatalog)
    /\ [][ ( /\ status = "ok" /\ status' = "ok"
             /\ loaded' = loaded
             /\ <<sel_tipos, max_km, user_lat, user_lon, search_txt>>' =
                    <<sel_tipos, max_km, user_lat, user_lon, search_txt>> )
           => work_df' = work_df ]_vars

\* C10 witness: a completed query that applied no filter before it wrote the
\* dist_km column, over a loaded catalog with records.
C10_Witness ==
    /\ status = "ok"
    /\ ~df_empty(loaded)
    /\ sel_tipos = {}
    /\ strip(search_txt) = <<>>
    /\ work_df.rows # <<>>
    /\ \E k \in DOMAIN work_df.columns : work_df.columns[k] = "dist_km"

----------------------------------------------------------------------------
(* Tab 2: Salud QR                                                         *)

REGISTRAR == "Registrar / Actualizar"
CONSULTAR == "Consultar por ID"

\* str(uuid.uuid4())[:8]: the short ids the model draws.
PersonIds ==
    { <<"a", "b", "1", "2", "c", "d", "3", "4">>,
      <<"0", "f", "9", "e", "8", "d", "7", "c">> }

\* What is typed into "ID paciente".
QidTexts ==
    PersonIds \cup { <<>>, <<" ", "a", "b", "1", "2", "c", "d", "3", "4", " ">> }

\* The values of form f_person; birth_year is the widget's default.  The
\* updated_at timestamp of a stored profile is left out.
PersonForms ==
    [alias : { <<>>, <<"A", "n", "a">> }, birth_year : {1985},
     conditions : { <<>>, <<" ", "a", "s", "m", "a">> },
     meds : { <<>> }, allergies : { <<>> }, critical_flags : { <<>> }, notes : { <<>> }]

\* The values of form f_visit; when_ is the ISO minute as the number DDhhmm.
VisitForms ==
    [when_ : {11000, 20930}, provider : {"clinica"}, summary : {"control"}]

NoVisitForm == [when_ |-> 0, provider |-> "", summary |-> ""]

\* The dict p the submit_new handler builds.
NewPerson(id, f) ==
    [id |-> id,
     alias |-> IF strip(f.alias) # <<>> THEN strip(f.alias) ELSE <<"N", "A">>,
     birth_year |-> f.birth_year,
     conditions |-> strip(f.conditions),
     meds |-> strip(f.meds),
     allergies |-> strip(f.allergies),
     critical_flags |-> strip(f.critical_flags),
     notes |-> strip(f.notes)]

\* upsert_person(p): UPDATE the row with that id if there is one, else INSERT.
upsert_person(tbl, p) ==
    IF p.id \in DOMAIN tbl
    THEN [tbl EXCEPT ![p.id] = p]
    ELSE [i \in DOMAIN tbl \cup {p.id} |-> IF i = p.id THEN p ELSE tbl[i]]

\* get_person(person_id): the stored row, or nothing (None).
get_person(tbl, person_id) ==
    IF person_id \in DOMAIN tbl THEN << tbl[person_id] >> ELSE <<>>

\* add_visit(person_id, when_, provider, summary)
add_visit(tbl, person_id, when_, provider, summary) ==
    Append(tbl, [person_id |-> person_id, when_ |-> when_,
                 provider |-> provider, summary |-> summary])

\* get_visits(person_id): the person's visits, ORDER BY when_ DESC (equal
\* when_ in rowid order).
get_visits(tbl, person_id) ==
    LET mine == SelectRows(tbl, { i \in DOMAIN tbl : tbl[i].person_id = person_id })
        p == CHOOSE q \in Perms(DOMAIN mine) :
                 \A i \in 1..(Len(q) - 1) :
                     \/ mine[q[i]].when_ > mine[q[i + 1]].when_
                     \/ mine[q[i]].when_ = mine[q[i + 1]].when_ /\ q[i] < q[i + 1]
    IN [i \in DOMAIN mine |->
           [when |-> mine[p[i]].when_, provider |-> mine[p[i]].provider,
            summary |-> mine[p[i]].summary]]

\* Lines 502-646: one execution of Tab 2.  trigger is the widget whose use
\* started the run: a form_submit_button returns True in that run only.
Tab2(trigger, mode, qid, new_id, pform, vform) ==
    IF mode = REGISTRAR
    THEN LET submit_new == trigger = "submit_new"
         IN IF submit_new
            THEN [persons |-> upsert_person(persons, NewPerson(new_id, pform)),
                  visits |-> visits, view |-> "saved"]
            ELSE [persons |-> persons, visits |-> visits, view |-> "f_person"]
    ELSE LET load_btn == trigger = "load_btn"
         IN IF load_btn /\ strip(qid) # <<>>
            THEN LET person == get_person(persons, strip(qid))
                 IN IF person = <<>>
                    THEN [persons |-> persons, visits |-> visits, view |-> "not_found"]
                    ELSE LET submit_v == trigger = "submit_v"
                         IN [persons |-> persons,
                             visits |-> IF submit_v
                                        THEN add_visit(visits, strip(qid), vform.when_,
                                                       vform.provider, vform.summary)
                                        ELSE visits,
                             view |-> "expediente"]
            ELSE [persons |-> persons, visits |-> visits, view |-> "f_lookup"]

QRRun(trigger, mode, qid, new_id, pform, vform) ==
    \E out \in { Tab2(trigger, mode, qid, new_id, pform, vform) } :
       /\ persons' = out.persons
       /\ visits' = out.visits
       /\ qr_view' = out.view
       /\ qr_mode' = mode
       /\ lookup_text' = qid
       /\ qr_trigger' = trigger
       /\ visit_form' = IF trigger = "submit_v" THEN vform ELSE NoVisitForm
       /\ incoming_id' = incoming_id
       /\ UNCHANGED <<mapVars, newsVars>>

AnyPersonForm == CHOOSE f \in PersonForms : TRUE

\* The first run of a session opened with ?id=inc: the radio is on its
\* first option and init_db() has created the two tables.
QRStart(inc) ==
    /\ incoming_id = inc
    /\ persons = << >>
    /\ visits = << >>
    /\ qr_mode = REGISTRAR
    /\ lookup_text = <<>>
    /\ qr_view = "f_person"
    /\ qr_trigger = "none"
    /\ visit_form = NoVisitForm

\* The radio is switched.  The ID field exists in CONSULTAR only, where it
\* starts from the ?id= parameter.
SelectMode ==
    \E m \in {REGISTRAR, CONSULTAR} \ {qr_mode} :
        QRRun("qr_mode", m, IF m = CONSULTAR THEN incoming_id ELSE <<>>,
              <<>>, AnyPersonForm, NoVisitForm)

\* "Guardar y generar QR"
SubmitNew ==
    /\ qr_mode = REGISTRAR
    /\ \E f \in PersonForms, id \in PersonIds :
          QRRun("submit_new", REGISTRAR, <<>>, id, f, NoVisitForm)

\* "Cargar expediente", with the ID typed into the form.
ClickLoad ==
    /\ qr_mode = CONSULTAR
    /\ \E q \in QidTexts :
          QRRun("load_btn", CONSULTAR, q, <<>>, AnyPersonForm, NoVisitForm)

\* "Agregar visita": the button exists only where the last run drew f_visit.
SubmitVisit ==
    /\ qr_view = "expediente"
    /\ \E v \in VisitForms :
          QRRun("submit_v", CONSULTAR, lookup_text, <<>>, AnyPersonForm, v)

QRNext ==
    \/ SelectMode
    \/ SubmitNew
    \/ ClickLoad
    \/ SubmitVisit

----------------------------------------------------------------------------
(* Tab 4: News & Clima                                                     *)

\* Longest weather description.
MaxDescLen == 4

DescChars == {"c", "o", "l", "d", "C"}

RECURSIVE SeqsUpTo(_, _)
SeqsUpTo(S, n) ==
    IF n = 0 THEN { <<>> }
    ELSE LET shorter == SeqsUpTo(S, n - 1)
         IN shorter \cup { Append(q, x) : q \in shorter, x \in S }

\* Temperatures in tenths of a degree Celsius.
Temperatures == {50, 80, 81, 200, 349, 350, 400}

Weathers == [temp : Temperatures, description : SeqsUpTo(DescChars, MaxDescLen)]

COLD_WARNING == "Clima frio esta noche. Busca un shelter cercano para dormir bajo techo."
GENERAL_ADVICE == "Recomendacion: mantente hidratado, utiliza cobijas secas y evita zonas aisladas."
URGENT_ADVICE == "Si necesitas atencion medica urgente marca 911."

\* Lines 674-683: what Tab 4 writes.  It reads neither a temperature nor a
\* description.
Tab4 == <<COLD_WARNING, GENERAL_ADVICE, URGENT_ADVICE>>

NewsStart(w) ==
    /\ weather = w
    /\ news = Tab4

\* A run of the script after the temperature or the description outside
\* has changed to that of w.
RenderNews ==
    \E w \in Weathers \ {weather} :
        /\ w.temp = weather.temp \/ w.description = weather.description
        /\ weather' = w
        /\ news' = Tab4
        /\ UNCHANGED <<mapVars, qrVars>>

NewsNext == RenderNews

----------------------------------------------------------------------------
(* Specifications: each explores one tab, the others staying as the first  *)
(* run of the session left them.                                           *)

StableBuild == [ties |-> [i \in 1..MaxRows |-> i]]

MildWeather == [temp |-> 200, description |-> <<>>]

Init ==
    /\ \E b \in Builds : MapStart(b)
    /\ QRStart(<<>>)
    /\ NewsStart(MildWeather)

Next == MapNext

Spec == Init /\ [][Next]_vars

InitQR ==
    /\ MapStart(StableBuild)
    /\ \E inc \in QidTexts : QRStart(inc)
    /\ NewsStart(MildWeather)

SpecQR == InitQR /\ [][QRNext]_vars

InitNews ==
    /\ MapStart(StableBuild)
    /\ QRStart(<<>>)
    /\ \E w \in Weathers : NewsStart(w)

SpecNews == InitNews /\ [][NewsNext]_vars

----------------------------------------------------------------------------
(* Tab 2 and Tab 4 against their claims                                    *)

\* C8: after a provider has loaded an existing profile by ID and submitted
\* the visit form, add_visit has run: get_visits for that ID contains the
\* submitted visit.
C8_SubmittedVisitIsStored ==
    qr_trigger = "submit_v" =>
        \E k \in DOMAIN get_visits(visits, strip(lookup_text)) :
            get_visits(visits, strip(lookup_text))[k] =
                [when |-> visit_form.when_, provider |-> visit_form.provider,
                 summary |-> visit_form.summary]

\* The description contains "cold", whatever the case of its letters.
MentionsCold(d) == IsSubstring(<<"c", "o", "l", "d">>, lower(d))

\* C9: the recommendation follows the band: the cold (seek shelter) one is
\* issued if and only if the temperature is at most 8.0 C or the description
\* contains "cold"; in the heat band (not cold, at least 35.0 C) and in the
\* moderate band no cold recommendation is issued.
C9_RecommendationFollowsBand ==
    (\E k \in DOMAIN news : news[k] = COLD_WARNING)
        <=> (weather.temp <= 80 \/ MentionsCold(weather.description))

\* C11: registering a new profile never changes or replaces a profile that is
\* already stored: across every "Guardar y generar QR" run each stored ID
\* still resolves through get_person to the same data, and the number of
\* stored profiles grows by exactly one, so that it equals the number of
\* registrations.
C11_RegistrationKeepsStoredProfiles ==
    [][qr_trigger' = "submit_new" =>
          /\ \A id \in DOMAIN persons :
                 get_person(persons', id) = get_person(persons, id)
          /\ Cardinality(DOMAIN persons') = Cardinality(DOMAIN persons) + 1]_vars

====
